---- MODULE Spec2Model ----
(***************************************************************************)
(* A model of python-pushover-open-client: the Session Manager             *)
(* (class PushoverOpenClient), the process-wide dispatch registries and    *)
(* the Realtime Dispatcher (class PushoverOpenClientRealTime).             *)
(*                                                                         *)
(* Python values are tagged records, so that None, False, 0 and the empty  *)
(* string stay different values that are all falsy.  A Python str is a     *)
(* sequence of characters; a character is an atom such as "a", " " or ":". *)
(***************************************************************************)
EXTENDS Integers, Sequences, FiniteSets, TLC

VARIABLES
    clients,                        \* the PushoverOpenClient instances made so far (their instance attributes)
    messages,                       \* PushoverOpenClient.messages: one dict object, a class attribute
    credfile,                       \* the credentials file: PyNone when absent, else the JSON object
    COMMAND_FUNCTIONS_REGISTRY,     \* dict: command word -> function
    COMMAND_PARSERS_REGISTRY,       \* dict: command word -> function
    PARSERS_REGISTRY,               \* dict: name -> function, in insertion order
    SHELL_COMMANDS_REGISTRY,        \* set of command words
    SHELL_COMMAND_ALIASES_REGISTRY, \* dict: alias -> command line
    rt,                             \* the PushoverOpenClientRealTime instance, PyNone before it is made
    ws,                             \* the websocket connection: its state and the frames sent on it
    op,                             \* the operation that ran last: its name, arguments and result
    calls,                          \* what the operation that ran last did, in order
    children,                       \* the shell processes subprocess.Popen started that have not exited
    acknowledged                    \* the server: the watermark of the last acknowledgement it got

vars == <<clients, messages, credfile, COMMAND_FUNCTIONS_REGISTRY,
          COMMAND_PARSERS_REGISTRY, PARSERS_REGISTRY, SHELL_COMMANDS_REGISTRY,
          SHELL_COMMAND_ALIASES_REGISTRY, rt, ws, op, calls, children,
          acknowledged>>

registries == <<COMMAND_FUNCTIONS_REGISTRY, COMMAND_PARSERS_REGISTRY,
                PARSERS_REGISTRY, SHELL_COMMANDS_REGISTRY,
                SHELL_COMMAND_ALIASES_REGISTRY>>

(***************************************************************************)
(* Bounds of the model.                                                    *)
(***************************************************************************)
MaxId == 2          \* notification ids are 1..MaxId
MaxBatch == 2       \* a download returns at most MaxBatch notifications

(***************************************************************************)
(* Python values.                                                          *)
(***************************************************************************)
PyNone == [t |-> "None"]
PyBool(b) == [t |-> "bool", b |-> b]
PyInt(n) == [t |-> "int", n |-> n]
PyStr(s) == [t |-> "str", s |-> s]
PyList(l) == [t |-> "list", l |-> l]
PyDict(d) == [t |-> "dict", d |-> d]
PyRaise(e) == [t |-> "raise", e |-> e]

\* Python's truth value of x (what `if x` tests).
Truthy(x) ==
    CASE x.t = "None" -> FALSE
      [] x.t = "bool" -> x.b
      [] x.t = "int" -> x.n # 0
      [] x.t = "str" -> x.s # <<>>
      [] x.t = "list" -> x.l # <<>>
      [] x.t = "dict" -> DOMAIN x.d # {}

IsRaise(x) == x.t = "raise"

\* d.update({k: v}) on a dict held as a function.
DictUpdate(d, k, v) == [x \in DOMAIN d \cup {k} |-> IF x = k THEN v ELSE d[x]]

EmptyDict == [x \in {} |-> PyNone]

\* A slip: the lowest key instead of the highest.
SetMin(s) == CHOOSE x \in s : \A y \in s : x <= y

\* max(s) of a non-empty set of integers.
SetMax(s) == CHOOSE x \in s : \A y \in s : y <= x

(***************************************************************************)
(* Small value sets the inputs are drawn from.                             *)
(***************************************************************************)
Emails == {PyStr(<<"me@example.org">>)}
Passwords == {PyStr(<<"pw">>)}
Secrets == {PyStr(<<"s1">>), PyStr(<<"s2">>)}
DeviceIds == {PyStr(<<"d1">>), PyStr(<<"d2">>)}
TwofaCodes == {PyStr(<<"123456">>)}
ErrorPayloads == {PyList(<<"invalid">>)}
Ids == 1 .. MaxId

(***************************************************************************)
(* What an operation leaves behind in `calls`.                             *)
(***************************************************************************)
Call(f) == [ev |-> "call", f |-> f]
Http(what, data) == [ev |-> "http", what |-> what, data |-> data]
Ran(reg, name, f, args, raw_data) ==
    [ev |-> "handler", reg |-> reg, name |-> name, f |-> f, args |-> args,
     raw_data |-> raw_data]
Popen(by, args) == [ev |-> "Popen", by |-> by, args |-> args, shell |-> TRUE]

\* An operation's outcome: the state it leaves and what it returns (or raises).
R(st, ret) == [st |-> st, ret |-> ret]

Enter(st, f) == [st EXCEPT !.calls = Append(@, Call(f))]

(***************************************************************************)
(* class PushoverOpenClient                                                *)
(***************************************************************************)
\* The class attributes every instance starts from.
PushoverOpenClient ==
    [email |-> PyStr(<<>>), password |-> PyStr(<<>>),
     device_id |-> PyStr(<<>>), secret |-> PyStr(<<>>),
     twofa |-> PyNone, needs_twofa |-> FALSE,
     highest_message_id |-> PyNone,
     login_errors |-> PyNone,
     device_registration_errors |-> PyNone,
     message_downloading_errors |-> PyNone,
     update_highest_message_errors |-> PyNone]

_get_credentials_dict(c) ==
    LET d0 == EmptyDict
        d1 == IF Truthy(c.email) THEN DictUpdate(d0, "email", c.email) ELSE d0
        d2 == IF Truthy(c.password) THEN DictUpdate(d1, "password", c.password) ELSE d1
        d3 == IF Truthy(c.secret) THEN DictUpdate(d2, "secret", c.secret) ELSE d2
        d4 == IF Truthy(c.device_id) THEN DictUpdate(d3, "device_id", c.device_id) ELSE d3
    IN d4

_get_login_payload(email, password, twofa) ==
    LET login_payload == DictUpdate(DictUpdate(EmptyDict, "email", email),
                                    "password", password)
    IN IF Truthy(twofa) THEN DictUpdate(login_payload, "twofa", twofa)
       ELSE login_payload

_get_device_registration_payload(device_name, secret) ==
    [name |-> device_name, os |-> PyStr(<<"O">>), secret |-> secret]

_get_message_downloading_params(secret, device_id) ==
    [secret |-> secret, device_id |-> device_id]

_get_delete_messages_payload(message, secret) ==
    [message |-> message, secret |-> secret]

write_credentials_file(st) ==
    [st EXCEPT !.credfile = PyDict(_get_credentials_dict(st.c))]

load_from_credentials_file(st) ==
    IF st.credfile = PyNone THEN R(st, PyRaise("Exception"))
    ELSE LET credentials == st.credfile.d
             has(k) == k \in DOMAIN credentials
         IN IF ~has("email") THEN R(st, PyRaise("KeyError"))
            ELSE IF ~has("password")
            THEN R([st EXCEPT !.c.email = credentials["email"]], PyRaise("KeyError"))
            ELSE R([st EXCEPT
                      !.c.email = credentials["email"],
                      !.c.password = credentials["password"],
                      !.c.device_id = IF has("device_id")
                                      THEN credentials["device_id"] ELSE @,
                      !.c.secret = IF has("secret")
                                   THEN credentials["secret"] ELSE @],
                   PyNone)

load_from_email_and_password(st, email, password) ==
    load_from_credentials_file(
        write_credentials_file([st EXCEPT !.c.email = email,
                                          !.c.password = password]))

\* A slip: the stored code is never used.
login_twofa_argument_only(c, twofa_) == twofa_

\* if self.needs_twofa: ... the code to send: the argument, else the stored one.
login_twofa(c, twofa_) ==
    IF c.needs_twofa
    THEN (IF Truthy(twofa_) THEN twofa_ ELSE c.twofa)
    ELSE twofa_

\* A slip: HTTP 412 is handled like any other failed login.
login_reply_no_412(st1, resp, rewrite_creds_file) ==
    IF ~(resp.status = 1)
    THEN R([st1 EXCEPT !.c.needs_twofa = FALSE,
                       !.c.login_errors = resp.errors], PyNone)
    ELSE LET st2 == [st1 EXCEPT !.c.needs_twofa = FALSE,
                                !.c.secret = resp.secret]
         IN R(IF rewrite_creds_file THEN write_credentials_file(st2) ELSE st2,
              st2.c.secret)

\* What login does with the server's reply.
login_reply(st1, resp, rewrite_creds_file) ==
    IF resp.status_code = 412
    THEN R([st1 EXCEPT !.c.needs_twofa = TRUE], PyNone)
    ELSE IF ~(resp.status = 1)
    THEN R([st1 EXCEPT !.c.needs_twofa = FALSE,
                       !.c.login_errors = resp.errors], PyNone)
    ELSE LET st2 == [st1 EXCEPT !.c.needs_twofa = FALSE,
                                !.c.secret = resp.secret]
         IN R(IF rewrite_creds_file THEN write_credentials_file(st2) ELSE st2,
              st2.c.secret)

login(st0, email_, password_, twofa_, rewrite_creds_file, resp) ==
    LET st == Enter(st0, "login")
        c == st.c
        email == IF ~Truthy(email_) THEN c.email ELSE email_
        password == IF ~Truthy(password_) THEN c.password ELSE password_
        twofa == login_twofa(c, twofa_)
        login_payload == _get_login_payload(email, password, twofa)
        st1 == [st EXCEPT !.c.login_errors = PyNone,
                          !.calls = Append(@, Http("login", login_payload))]
    IN IF c.needs_twofa /\ ~Truthy(twofa_) /\ ~Truthy(c.twofa)
       THEN R(st, PyNone)
       ELSE login_reply(st1, resp, rewrite_creds_file)

set_twofa(st, twofa) == [st EXCEPT !.c.twofa = twofa]

\* now: the timestamp datetime.now().strftime("%Y%m%d_%H%M%S") yields.
generate_new_device_name(now) == PyStr(<<"python-">> \o now)

\* A slip: a refused registration is not recorded.
register_device_unreported(st0, device_name_, secret_, rewrite_creds_file, now, resp) ==
    LET st == Enter(st0, "register_device")
        c == st.c
        device_name == IF ~Truthy(device_name_)
                       THEN generate_new_device_name(now) ELSE device_name_
        secret == IF ~Truthy(secret_) THEN c.secret ELSE secret_
        st1 == [st EXCEPT
                  !.c.device_registration_errors = PyNone,
                  !.calls = Append(@, Http("devices",
                      _get_device_registration_payload(device_name, secret)))]
    IN IF ~(resp.status = 1)
       THEN R(st1, PyBool(FALSE))
       ELSE LET st2 == [st1 EXCEPT !.c.device_id = resp.id]
            IN R(IF rewrite_creds_file THEN write_credentials_file(st2) ELSE st2,
                 st2.c.device_id)

register_device(st0, device_name_, secret_, rewrite_creds_file, now, resp) ==
    LET st == Enter(st0, "register_device")
        c == st.c
        device_name == IF ~Truthy(device_name_)
                       THEN generate_new_device_name(now) ELSE device_name_
        secret == IF ~Truthy(secret_) THEN c.secret ELSE secret_
        device_registration_payload ==
            _get_device_registration_payload(device_name, secret)
        st1 == [st EXCEPT
                  !.c.device_registration_errors = PyNone,
                  !.calls = Append(@, Http("devices", device_registration_payload))]
    IN IF ~(resp.status = 1)
       THEN R([st1 EXCEPT !.c.device_registration_errors = resp.errors],
              PyBool(FALSE))
       ELSE LET st2 == [st1 EXCEPT !.c.device_id = resp.id]
            IN R(IF rewrite_creds_file THEN write_credentials_file(st2) ELSE st2,
                 st2.c.device_id)

\* A slip: an id the store already holds keeps its old entry.
RECURSIVE store_messages_keep(_, _)
store_messages_keep(store, msgs) ==
    IF msgs = <<>> THEN store
    ELSE LET message == Head(msgs)
             message_id == message["id"].n
         IN store_messages_keep(IF message_id \in DOMAIN store THEN store
                                ELSE DictUpdate(store, message_id, message),
                                Tail(msgs))

\* A slip: the store is emptied before the batch is stored.
store_messages_only_batch(store, msgs) ==
    [id \in {msgs[j]["id"].n : j \in DOMAIN msgs} |->
        msgs[CHOOSE j \in DOMAIN msgs : msgs[j]["id"].n = id]]

\* for message in messages: self.messages.update({message["id"]: message})
RECURSIVE store_messages(_, _)
store_messages(store, msgs) ==
    IF msgs = <<>> THEN store
    ELSE LET message == Head(msgs)
             message_id == message["id"].n
         IN store_messages(DictUpdate(store, message_id, message), Tail(msgs))

download_messages(st0, secret_, device_id_, resp) ==
    LET st == Enter(st0, "download_messages")
        c == st.c
        secret == IF ~Truthy(secret_) THEN c.secret ELSE secret_
        device_id == IF ~Truthy(device_id_) THEN c.device_id ELSE device_id_
        message_downloading_params ==
            _get_message_downloading_params(secret, device_id)
        st1 == [st EXCEPT
                  !.c.message_downloading_errors = PyNone,
                  !.calls = Append(@, Http("messages", message_downloading_params))]
    IN IF ~(resp.status = 1)
       THEN R([st1 EXCEPT !.c.message_downloading_errors = resp.errors],
              PyBool(FALSE))
       ELSE R([st1 EXCEPT !.messages = store_messages(@, resp.messages)],
              PyList(resp.messages))

\* resp is the reply to the download made when redownload is set.
get_highest_message_id(st0, redownload, resp) ==
    LET st == Enter(st0, "get_highest_message_id")
        st1 == IF redownload
               THEN download_messages(st, PyNone, PyNone, resp).st ELSE st
    IN IF DOMAIN st1.messages = {}
       THEN R(st1, PyBool(FALSE))
       ELSE LET highest_message_id == PyInt(SetMax(DOMAIN st1.messages))
            IN R([st1 EXCEPT !.c.highest_message_id = highest_message_id],
                 highest_message_id)

\* A slip: the store's highest id is sent whatever last_message_id was given.
default_last_message_id_always(st, last_message_id_) ==
    get_highest_message_id(st, FALSE, PyNone)

\* if not last_message_id: last_message_id = self.get_highest_message_id(...)
default_last_message_id(st, last_message_id_) ==
    IF ~Truthy(last_message_id_)
    THEN get_highest_message_id(st, FALSE, PyNone)
    ELSE R(st, last_message_id_)

delete_all_messages(st0, device_id_, secret_, last_message_id_, resp) ==
    LET st == Enter(st0, "delete_all_messages")
        c == st.c
        device_id == IF ~Truthy(device_id_) THEN c.device_id ELSE device_id_
        secret == IF ~Truthy(secret_) THEN c.secret ELSE secret_
        defaulted == default_last_message_id(st, last_message_id_)
        last_message_id == defaulted.ret
        st1 == defaulted.st
        delete_messages_payload ==
            _get_delete_messages_payload(last_message_id, secret)
        st2 == [st1 EXCEPT
                  !.c.update_highest_message_errors = PyNone,
                  !.calls = Append(@, Http("update_highest_message",
                                           [device_id |-> device_id,
                                            data |-> delete_messages_payload]))]
    IN IF ~(resp.status = 1)
       THEN R([st2 EXCEPT !.c.update_highest_message_errors = resp.errors],
              PyBool(FALSE))
       ELSE R(st2, PyBool(TRUE))

\* PUSHOVER_WEBSOCKET_LOGIN.format(device_id=..., secret=...)
PUSHOVER_WEBSOCKET_LOGIN(device_id, secret) ==
    PyStr(<<"login", ":">> \o device_id.s \o <<":">> \o secret.s \o <<"\n">>)

get_websocket_login_string(st0, device_id_, secret_) ==
    LET st == Enter(st0, "get_websocket_login_string")
        c == st.c
        device_id == IF ~Truthy(device_id_) THEN c.device_id ELSE device_id_
        secret == IF ~Truthy(secret_) THEN c.secret ELSE secret_
    IN IF ~Truthy(device_id) \/ ~Truthy(secret)
       THEN R(st, PyRaise("Exception"))
       ELSE R(st, PUSHOVER_WEBSOCKET_LOGIN(c.device_id, c.secret))

(***************************************************************************)
(* Notifications and the registries' handlers.                             *)
(***************************************************************************)
NotificationKeys ==
    {"id", "id_str", "umid", "umid_str", "title", "message", "app", "aid",
     "aid_str", "icon", "date", "queued_date", "dispatched_date", "priority",
     "sound", "url", "url_title", "acked", "receipt", "html"}

get_notification_model(kwargs) ==
    [k \in NotificationKeys \cup DOMAIN kwargs |->
        IF k \in DOMAIN kwargs THEN kwargs[k] ELSE PyNone]

Whitespace == {" ", "\t", "\n"}

\* str.split(): the maximal runs of non-whitespace characters, in order.
RECURSIVE split_from(_, _, _)
split_from(text, word, words) ==
    IF text = <<>>
    THEN (IF word = <<>> THEN words ELSE Append(words, word))
    ELSE IF Head(text) \in Whitespace
    THEN split_from(Tail(text), <<>>,
                    IF word = <<>> THEN words ELSE Append(words, word))
    ELSE split_from(Tail(text), Append(word, Head(text)), words)

split(text) == split_from(text, <<>>, <<>>)

\* d.update({name: f}) on a dict held in insertion order, as <<name, f>> pairs.
RECURSIVE OrderedUpdate(_, _, _)
OrderedUpdate(d, name, f) ==
    IF d = <<>> THEN << <<name, f>> >>
    ELSE IF Head(d)[1] = name THEN << <<name, f>> >> \o Tail(d)
    ELSE <<Head(d)>> \o OrderedUpdate(Tail(d), name, f)

OrderedKeys(d) == {d[i][1] : i \in DOMAIN d}

(***************************************************************************)
(* class PushoverOpenClientRealTime: processing of notifications.          *)
(***************************************************************************)
CallWith(f, arg) == [ev |-> "call", f |-> f, arg |-> arg]

process_command_function(st, raw_data) ==
    LET arguments == split(raw_data["message"].s)
        command == arguments[1]
    IN [st EXCEPT !.calls =
          Append(@, Ran("COMMAND_FUNCTIONS_REGISTRY", command,
                        COMMAND_FUNCTIONS_REGISTRY[command], arguments, raw_data))]

process_parser_command(st, raw_data) ==
    LET arguments == split(raw_data["message"].s)
        command == arguments[1]
    IN [st EXCEPT !.calls =
          Append(@, Ran("COMMAND_PARSERS_REGISTRY", command,
                        COMMAND_PARSERS_REGISTRY[command], <<>>, raw_data))]

process_parser(st, raw_data) ==
    [st EXCEPT !.calls =
       @ \o [i \in DOMAIN PARSERS_REGISTRY |->
               Ran("PARSERS_REGISTRY", PARSERS_REGISTRY[i][1],
                   PARSERS_REGISTRY[i][2], <<>>, raw_data)]]

process_shell_command(st, raw_data) ==
    LET arguments_str == raw_data["message"]
    IN [st EXCEPT !.calls = Append(@, Popen("process_shell_command", arguments_str))]

\* A slip: the message goes to the shell in place of the alias's line.
process_shell_alias_with_message(st, raw_data) ==
    LET arguments_str == raw_data["message"]
    IN [st EXCEPT !.calls = Append(@, Popen("process_shell_alias", arguments_str))]

process_shell_alias(st, raw_data) ==
    LET alias == split(raw_data["message"].s)[1]
        command_line_str == SHELL_COMMAND_ALIASES_REGISTRY[alias]
    IN [st EXCEPT !.calls = Append(@, Popen("process_shell_alias", command_line_str))]

\* A slip: the registries are tried in turn and the first match wins.
process_message_first_match(st0, message) ==
    LET st == [st0 EXCEPT !.calls = Append(@, CallWith("process_message", message))]
        raw_data == get_notification_model(message)
    IN IF raw_data["message"].t # "str"
       THEN R(st, PyRaise("AttributeError"))
       ELSE
       LET arguments == split(raw_data["message"].s)
       IN IF arguments = <<>>
          THEN R(st, PyRaise("IndexError"))
          ELSE
          LET command == arguments[1]
              st4 == IF command \in DOMAIN COMMAND_FUNCTIONS_REGISTRY
                     THEN process_command_function(st, raw_data)
                     ELSE IF command \in DOMAIN COMMAND_PARSERS_REGISTRY
                     THEN process_parser_command(st, raw_data)
                     ELSE IF command \in SHELL_COMMANDS_REGISTRY
                     THEN process_shell_command(st, raw_data)
                     ELSE IF command \in DOMAIN SHELL_COMMAND_ALIASES_REGISTRY
                     THEN process_shell_alias(st, raw_data) ELSE st
          IN R(process_parser(st4, raw_data), PyNone)

\* A slip: the message goes to the shell whether its word is registered or not.
process_message_shell_unlisted(st0, message) ==
    LET st == [st0 EXCEPT !.calls = Append(@, CallWith("process_message", message))]
        raw_data == get_notification_model(message)
    IN IF raw_data["message"].t # "str"
       THEN R(st, PyRaise("AttributeError"))
       ELSE
       LET arguments == split(raw_data["message"].s)
       IN IF arguments = <<>>
          THEN R(st, PyRaise("IndexError"))
          ELSE
          LET command == arguments[1]
              st1 == IF command \in DOMAIN COMMAND_FUNCTIONS_REGISTRY
                     THEN process_command_function(st, raw_data) ELSE st
              st2 == IF command \in DOMAIN COMMAND_PARSERS_REGISTRY
                     THEN process_parser_command(st1, raw_data) ELSE st1
              st3 == process_shell_command(st2, raw_data)
              st4 == IF command \in DOMAIN SHELL_COMMAND_ALIASES_REGISTRY
                     THEN process_shell_alias(st3, raw_data) ELSE st3
          IN R(process_parser(st4, raw_data), PyNone)

process_message(st0, message) ==
    LET st == [st0 EXCEPT !.calls = Append(@, CallWith("process_message", message))]
        raw_data == get_notification_model(message)
    IN IF raw_data["message"].t # "str"
       THEN R(st, PyRaise("AttributeError"))
       ELSE
       LET arguments == split(raw_data["message"].s)
       IN IF arguments = <<>>
          THEN R(st, PyRaise("IndexError"))
          ELSE
          LET first_word == arguments[1]
              command == first_word
              alias == first_word
              st1 == IF command \in DOMAIN COMMAND_FUNCTIONS_REGISTRY
                     THEN process_command_function(st, raw_data) ELSE st
              st2 == IF command \in DOMAIN COMMAND_PARSERS_REGISTRY
                     THEN process_parser_command(st1, raw_data) ELSE st1
              st3 == IF command \in SHELL_COMMANDS_REGISTRY
                     THEN process_shell_command(st2, raw_data) ELSE st2
              st4 == IF alias \in DOMAIN SHELL_COMMAND_ALIASES_REGISTRY
                     THEN process_shell_alias(st3, raw_data) ELSE st3
          IN R(process_parser(st4, raw_data), PyNone)

\* for message in messages: self.process_message(message)
RECURSIVE process_each(_, _)
process_each(st, msgs) ==
    IF msgs = <<>> THEN R(st, PyNone)
    ELSE LET r == process_message(st, Head(msgs))
         IN IF IsRaise(r.ret) THEN r ELSE process_each(r.st, Tail(msgs))

process_message_list(st0, msgs) ==
    LET st == Enter(st0, "process_message_list")
    IN IF msgs.t # "list" THEN R(st, PyRaise("TypeError"))
       ELSE process_each(st, msgs.l)

\* dresp, uresp: the server's replies to the download and to the delete.
message_do_sync(st0, dresp, uresp) ==
    LET st == Enter(st0, "message_do_sync")
        downloaded == download_messages(st, PyNone, PyNone, dresp)
        deleted == delete_all_messages(downloaded.st, PyNone, PyNone, PyNone, uresp)
    IN process_message_list(deleted.st, downloaded.ret)

message_keep_alive(st) == R(Enter(st, "message_keep_alive"), PyNone)
message_reload_request(st) == R(Enter(st, "message_reload_request"), PyNone)

\* A slip: the superseded session forgets its secret.
message_error_forgets(st) ==
    R([Enter(st, "message_error") EXCEPT !.c.secret = PushoverOpenClient.secret],
      PyNone)

message_error(st) == R(Enter(st, "message_error"), PyNone)

\* PushoverOpenClient(email, password): a new instance, in st.c.  The session
\* st.c stood for is the one the Dispatcher held; once the Dispatcher holds the
\* new one, nothing refers to the old one any more.
PushoverOpenClient__init__(st, email, password) ==
    LET made == [st EXCEPT !.c = PushoverOpenClient]
    IN IF ~Truthy(email) \/ ~Truthy(password)
       THEN load_from_credentials_file(made)
       ELSE R(made, PyNone)

\* A slip: the new session is made and used, and the Dispatcher keeps the old one.
message_error_permanent_keeps(st0, now, resp) ==
    LET st == Enter(st0, "message_error_permanent")
        made == PushoverOpenClient__init__(st, PyNone, PyNone)
        logged == login(made.st, PyNone, PyNone, PyNone, TRUE, resp.login)
        registered == register_device(logged.st, PyNone, PyNone, TRUE, now,
                                      resp.devices)
        downloaded == download_messages(registered.st, PyNone, PyNone,
                                        resp.messages)
        deleted == delete_all_messages(downloaded.st, PyNone, PyNone, PyNone,
                                       resp.update)
    IN R([deleted.st EXCEPT !.c = st.c], PyNone)

\* resp: the server's replies to the four requests; now: the clock.
message_error_permanent(st0, now, resp) ==
    LET st == Enter(st0, "message_error_permanent")
        made == PushoverOpenClient__init__(st, PyNone, PyNone)
        logged == login(made.st, PyNone, PyNone, PyNone, TRUE, resp.login)
        registered == register_device(logged.st, PyNone, PyNone, TRUE, now,
                                      resp.devices)
        downloaded == download_messages(registered.st, PyNone, PyNone,
                                        resp.messages)
        deleted == delete_all_messages(downloaded.st, PyNone, PyNone, PyNone,
                                       resp.update)
    IN IF IsRaise(made.ret) THEN R([made.st EXCEPT !.c = st.c], made.ret)
       ELSE R(deleted.st, PyNone)

\* The frames of the protocol, and one that is not.
Frames == {"#", "!", "R", "E", "A", "?"}

DEBUG == FALSE

\* The keys of PUSHOVER_WEBSOCKET_SERVER_MESSAGES_MEANING.
MeaningKeys == {"#", "!", "R", "E", "A"}

\* self.pushover_websocket_server_commands[message]() when message is a key.
react(st, message, now, resp) ==
    CASE message = "#" -> message_keep_alive(st)
      [] message = "!" -> message_do_sync(st, resp.messages, resp.update)
      [] message = "R" -> message_reload_request(st)
      [] message = "E" -> message_error_permanent(st, now, resp)
      [] message = "A" -> message_error(st)
      [] OTHER -> R(st, PyNone)

\* A slip: the frame's meaning is looked up whatever DEBUG is.
_on_message_debug(st, message, now, resp) ==
    LET reacted == react(st, message, now, resp)
    IN IF ~IsRaise(reacted.ret) /\ message \notin MeaningKeys
       THEN R(reacted.st, PyRaise("KeyError"))
       ELSE reacted

\* The reaction, then `if DEBUG: print(message, ...MEANING[message])`.
_on_message(st, message, now, resp) ==
    LET reacted == react(st, message, now, resp)
    IN IF DEBUG /\ ~IsRaise(reacted.ret) /\ message \notin MeaningKeys
       THEN R(reacted.st, PyRaise("KeyError"))
       ELSE reacted

\* send_login(websocketapp, pushover_websocket_login_string): the frame sent.
send_login(self, pushover_websocket_login_string) ==
    IF ~Truthy(pushover_websocket_login_string)
    THEN self.pushover_websocket_login_string
    ELSE pushover_websocket_login_string

\* A slip: the login frame goes out twice.
_on_open_twice(self) ==
    <<send_login(self, self.pushover_websocket_login_string),
      send_login(self, self.pushover_websocket_login_string)>>

\* The frames the handler sends on the connection that opened.
_on_open(self) == <<send_login(self, self.pushover_websocket_login_string)>>

(***************************************************************************)
(* Registration: the module's decorators and functions, and the methods    *)
(* of PushoverOpenClientRealTime that do the same.  Each yields the        *)
(* registry it leaves and what it returns (or raises).                     *)
(***************************************************************************)
register_command(registry, f) == R(DictUpdate(registry, f.__name__, f), PyNone)

register_command_parser(registry, f) == R(DictUpdate(registry, f.__name__, f), PyNone)

register_parser(registry, f) == R(OrderedUpdate(registry, f.__name__, f), PyNone)

register_shell_command(registry, command) ==
    IF split(command.s) = <<>> THEN R(registry, PyRaise("IndexError"))
    ELSE R(registry \cup {split(command.s)[1]}, PyNone)

register_shell_command_alias(registry, alias, command_line) ==
    IF split(alias.s) = <<>> THEN R(registry, PyRaise("IndexError"))
    ELSE LET processed_alias == split(alias.s)[1]
         IN R(DictUpdate(registry, processed_alias, command_line), PyNone)

add_command_function(registry, function) ==
    LET function_name == function.__name__
    IN R(DictUpdate(registry, function_name, function), PyNone)

add_command_parser(registry, function) ==
    LET function_name == function.__name__
    IN R(DictUpdate(registry, function_name, function), PyNone)

add_parser(registry, function) ==
    LET function_name == function.__name__
    IN R(OrderedUpdate(registry, function_name, function), PyNone)

add_shell_command(registry, command) == R(registry \cup {command.s}, PyNone)

add_shell_command_alias(registry, alias, command_line) ==
    R(DictUpdate(registry, alias.s, command_line), PyNone)

(***************************************************************************)
(* The server's replies and the notifications it holds.                    *)
(***************************************************************************)
Texts == {<<"ping">>, <<"ping", " ", "arg1">>, <<"rm", " ", "ping">>}
StoredTexts == {<<"ping">>}

\* A notification as the server sends it; "message" may be lacking.
NotificationsOf(texts) ==
    {[k \in {"id"} |-> PyInt(i)] : i \in Ids}
    \cup {[k \in {"id", "message"} |-> IF k = "id" THEN PyInt(i) ELSE PyStr(t)] :
            i \in Ids, t \in texts}

Notifications == NotificationsOf(StoredTexts)

\* The server's queue for the device: at most MaxBatch notifications, by id.
BatchesOf(notifications) ==
    UNION {{b \in [1 .. n -> notifications] :
              \A j, k \in 1 .. n : j < k => b[j]["id"].n < b[k]["id"].n} :
           n \in 0 .. MaxBatch}

Failed(e) == [status |-> 0, errors |-> e]

DownloadResponsesOf(notifications) ==
    {[status |-> 1, messages |-> b] : b \in BatchesOf(notifications)}
    \cup {Failed(e) : e \in ErrorPayloads}

DownloadResponses == DownloadResponsesOf(Notifications)

UpdateResponses == {[status |-> 1]} \cup {Failed(e) : e \in ErrorPayloads}

LoginResponses ==
    {[status_code |-> 200, status |-> 1, secret |-> s] : s \in Secrets}
    \cup {[status_code |-> 412, status |-> 0, errors |-> e] : e \in ErrorPayloads}
    \cup {[status_code |-> 403, status |-> 0, errors |-> e] : e \in ErrorPayloads}

RegisterResponses ==
    {[status |-> 1, id |-> d] : d \in DeviceIds}
    \cup {Failed(e) : e \in ErrorPayloads}

\* The server's replies when a session is made anew: the login is accepted or
\* refused, the device gets the other id, and the queue is empty.
ReconnectLogins == {r \in LoginResponses : r.status_code = 200 => r.secret.s = <<"s2">>}
ReconnectDevices == {r \in RegisterResponses : r.status = 1 /\ r.id.s = <<"d2">>}
ReconnectResponses == {r \in DownloadResponses : r.status = 1 /\ r.messages = <<>>}

(***************************************************************************)
(* The state machine.                                                      *)
(***************************************************************************)
\* What an operation on instance i starts from.
St(i) == [c |-> clients[i], messages |-> messages, credfile |-> credfile,
          calls |-> <<>>]

\* subprocess.Popen(...) returns once the shell is started: the processes the
\* log started, which run on beside the program.
Started(log) == {log[j] : j \in {k \in DOMAIN log : log[k].ev = "Popen"}}

\* requests.post(update_highest_message_endpoint, data=...): the watermark of
\* the last such request of the log, or the one the server had before.
LastWatermark(log, before) ==
    LET at == {j \in DOMAIN log :
                 log[j].ev = "http" /\ log[j].what = "update_highest_message"}
    IN IF at = {} THEN before ELSE log[SetMax(at)].data.data.message

\* The operation `name` on instance i ended as r.
Commit(i, r, name, args) ==
    /\ clients' = [clients EXCEPT ![i] = r.st.c]
    /\ messages' = r.st.messages
    /\ credfile' = r.st.credfile
    /\ calls' = r.st.calls
    /\ children' = children \cup Started(r.st.calls)
    /\ acknowledged' = LastWatermark(r.st.calls, acknowledged)
    /\ op' = [name |-> name, self |-> i, args |-> args, ret |-> r.ret]

DownloadMessages(i) ==
    \E resp \in DownloadResponses :
        /\ Commit(i, download_messages(St(i), PyNone, PyNone, resp),
                  "download_messages", [resp |-> resp])
        /\ UNCHANGED <<registries, rt, ws>>

DeleteAllMessages(i) ==
    \E last_message_id \in {PyNone} \cup {PyInt(n) : n \in Ids},
       resp \in UpdateResponses :
        /\ Commit(i, delete_all_messages(St(i), PyNone, PyNone, last_message_id, resp),
                  "delete_all_messages",
                  [last_message_id |-> last_message_id, resp |-> resp])
        /\ UNCHANGED <<registries, rt, ws>>

GetHighestMessageId(i) ==
    \E redownload \in BOOLEAN, resp \in DownloadResponses :
        /\ redownload \/ resp = Failed(PyNone)
        /\ Commit(i, get_highest_message_id(St(i), redownload, resp),
                  "get_highest_message_id",
                  [redownload |-> redownload, resp |-> resp])
        /\ UNCHANGED <<registries, rt, ws>>

\* A session that has logged in and registered its device, and its file.
Bootstrapped ==
    {[PushoverOpenClient EXCEPT !.email = e, !.password = p,
                                !.secret = s, !.device_id = d] :
        e \in Emails, p \in Passwords, s \in Secrets, d \in DeviceIds}

InitStore ==
    /\ clients = <<CHOOSE c \in Bootstrapped : TRUE>>
    /\ messages = EmptyDict
    /\ credfile = PyDict(_get_credentials_dict(clients[1]))
    /\ COMMAND_FUNCTIONS_REGISTRY = EmptyDict
    /\ COMMAND_PARSERS_REGISTRY = EmptyDict
    /\ PARSERS_REGISTRY = <<>>
    /\ SHELL_COMMANDS_REGISTRY = {}
    /\ SHELL_COMMAND_ALIASES_REGISTRY = EmptyDict
    /\ rt = PyNone
    /\ ws = [state |-> "disconnected", sent |-> <<>>]
    /\ op = [name |-> "init"]
    /\ calls = <<>>
    /\ children = {}
    /\ acknowledged = PyNone

NextStore ==
    \/ \E i \in DOMAIN clients : DownloadMessages(i)
    \/ \E i \in DOMAIN clients : DeleteAllMessages(i)
    \/ \E i \in DOMAIN clients : GetHighestMessageId(i)

\* The Session Manager's notification store, driven through its own methods.
SpecStore == InitStore /\ [][NextStore]_vars

(***************************************************************************)
(* The Session Manager's credentials, driven through its own methods.      *)
(***************************************************************************)
Login(i) ==
    \E twofa \in {PyNone, PyStr(<<>>)} \cup TwofaCodes,
       rewrite_creds_file \in BOOLEAN, resp \in LoginResponses :
        /\ Commit(i, login(St(i), PyNone, PyNone, twofa, rewrite_creds_file, resp),
                  "login", [twofa |-> twofa,
                            rewrite_creds_file |-> rewrite_creds_file,
                            resp |-> resp])
        /\ UNCHANGED <<registries, rt, ws>>

SetTwofa(i) ==
    \E twofa \in TwofaCodes :
        /\ Commit(i, R(set_twofa(St(i), twofa), PyNone), "set_twofa",
                  [twofa |-> twofa])
        /\ UNCHANGED <<registries, rt, ws>>

RegisterDevice(i) ==
    \E rewrite_creds_file \in BOOLEAN, resp \in RegisterResponses :
        /\ Commit(i, register_device(St(i), PyNone, PyNone, rewrite_creds_file,
                                     <<"20240101_000000">>, resp),
                  "register_device", [rewrite_creds_file |-> rewrite_creds_file,
                                      resp |-> resp])
        /\ UNCHANGED <<registries, rt, ws>>

GetWebsocketLoginString(i) ==
    \E device_id \in {PyNone} \cup DeviceIds, secret \in {PyNone} \cup Secrets :
        /\ Commit(i, get_websocket_login_string(St(i), device_id, secret),
                  "get_websocket_login_string",
                  [device_id |-> device_id, secret |-> secret])
        /\ UNCHANGED <<registries, rt, ws>>

\* A session made by PushoverOpenClient() from a file that holds only the
\* account's email and password.
InitSession ==
    /\ credfile \in {PyDict([k \in {"email", "password"} |->
                               IF k = "email" THEN e ELSE p]) :
                       e \in Emails, p \in Passwords}
    /\ clients = <<load_from_credentials_file(
                     [c |-> PushoverOpenClient, messages |-> EmptyDict,
                      credfile |-> credfile, calls |-> <<>>]).st.c>>
    /\ messages = EmptyDict
    /\ COMMAND_FUNCTIONS_REGISTRY = EmptyDict
    /\ COMMAND_PARSERS_REGISTRY = EmptyDict
    /\ PARSERS_REGISTRY = <<>>
    /\ SHELL_COMMANDS_REGISTRY = {}
    /\ SHELL_COMMAND_ALIASES_REGISTRY = EmptyDict
    /\ rt = PyNone
    /\ ws = [state |-> "disconnected", sent |-> <<>>]
    /\ op = [name |-> "init"]
    /\ calls = <<>>
    /\ children = {}
    /\ acknowledged = PyNone

NextSession ==
    \/ \E i \in DOMAIN clients : Login(i)
    \/ \E i \in DOMAIN clients : SetTwofa(i)
    \/ \E i \in DOMAIN clients : RegisterDevice(i)
    \/ \E i \in DOMAIN clients : GetWebsocketLoginString(i)

SpecSession == InitSession /\ [][NextSession]_vars

(***************************************************************************)
(* The registries and process_message, driven by registrations and by      *)
(* notifications handed to the Dispatcher.                                 *)
(***************************************************************************)
\* Python functions: what a registry holds is the function, found by its name.
Fn(name, body) == [__name__ |-> name, body |-> body]

CommandFunctions == {Fn(<<"ping">>, "ping_v1"), Fn(<<"ping">>, "ping_v2")}
ParserFunctions == CommandFunctions \cup {Fn(<<"log">>, "log_v1")}
ShellCommands == {PyStr(<<"ping">>), PyStr(<<"ping", " ", "-c">>), PyStr(<<>>)}
Aliases == {PyStr(<<"ping">>), PyStr(<<" ">>)}
CommandLines == {PyStr(<<"echo", " ", "hi">>), PyList(<<"echo", "hi">>)}

\* PushoverOpenClientRealTime(pushover_open_client=clients[i])
PushoverOpenClientRealTime(i) ==
    LET frame == get_websocket_login_string(St(i), PyNone, PyNone).ret
    IN IF IsRaise(frame) THEN frame
       ELSE [t |-> "PushoverOpenClientRealTime", pushover_open_client |-> i,
             pushover_websocket_login_string |-> frame]

\* A registration left the registries as they are now primed.
Registered(name, args, r) ==
    /\ op' = [name |-> name, args |-> args, ret |-> r.ret]
    /\ calls' = <<>>
    /\ UNCHANGED <<clients, messages, credfile, rt, ws, children, acknowledged>>

RegisterCommand ==
    \E f \in CommandFunctions :
        LET r == register_command(COMMAND_FUNCTIONS_REGISTRY, f)
        IN /\ COMMAND_FUNCTIONS_REGISTRY' = r.st
           /\ Registered("register_command", [f |-> f], r)
           /\ UNCHANGED <<COMMAND_PARSERS_REGISTRY, PARSERS_REGISTRY,
                          SHELL_COMMANDS_REGISTRY, SHELL_COMMAND_ALIASES_REGISTRY>>

RegisterCommandParser ==
    \E f \in CommandFunctions :
        LET r == register_command_parser(COMMAND_PARSERS_REGISTRY, f)
        IN /\ COMMAND_PARSERS_REGISTRY' = r.st
           /\ Registered("register_command_parser", [f |-> f], r)
           /\ UNCHANGED <<COMMAND_FUNCTIONS_REGISTRY, PARSERS_REGISTRY,
                          SHELL_COMMANDS_REGISTRY, SHELL_COMMAND_ALIASES_REGISTRY>>

RegisterParser ==
    \E f \in ParserFunctions :
        LET r == register_parser(PARSERS_REGISTRY, f)
        IN /\ PARSERS_REGISTRY' = r.st
           /\ Registered("register_parser", [f |-> f], r)
           /\ UNCHANGED <<COMMAND_FUNCTIONS_REGISTRY, COMMAND_PARSERS_REGISTRY,
                          SHELL_COMMANDS_REGISTRY, SHELL_COMMAND_ALIASES_REGISTRY>>

RegisterShellCommand ==
    \E command \in ShellCommands :
        LET r == register_shell_command(SHELL_COMMANDS_REGISTRY, command)
        IN /\ SHELL_COMMANDS_REGISTRY' = r.st
           /\ Registered("register_shell_command", [command |-> command], r)
           /\ UNCHANGED <<COMMAND_FUNCTIONS_REGISTRY, COMMAND_PARSERS_REGISTRY,
                          PARSERS_REGISTRY, SHELL_COMMAND_ALIASES_REGISTRY>>

RegisterShellCommandAlias ==
    \E alias \in Aliases, command_line \in CommandLines :
        LET r == register_shell_command_alias(SHELL_COMMAND_ALIASES_REGISTRY,
                                              alias, command_line)
        IN /\ SHELL_COMMAND_ALIASES_REGISTRY' = r.st
           /\ Registered("register_shell_command_alias",
                         [alias |-> alias, command_line |-> command_line], r)
           /\ UNCHANGED <<COMMAND_FUNCTIONS_REGISTRY, COMMAND_PARSERS_REGISTRY,
                          PARSERS_REGISTRY, SHELL_COMMANDS_REGISTRY>>

AddCommandFunction ==
    \E f \in CommandFunctions :
        LET r == add_command_function(COMMAND_FUNCTIONS_REGISTRY, f)
        IN /\ rt # PyNone
           /\ COMMAND_FUNCTIONS_REGISTRY' = r.st
           /\ Registered("add_command_function", [f |-> f], r)
           /\ UNCHANGED <<COMMAND_PARSERS_REGISTRY, PARSERS_REGISTRY,
                          SHELL_COMMANDS_REGISTRY, SHELL_COMMAND_ALIASES_REGISTRY>>

AddCommandParser ==
    \E f \in CommandFunctions :
        LET r == add_command_parser(COMMAND_PARSERS_REGISTRY, f)
        IN /\ rt # PyNone
           /\ COMMAND_PARSERS_REGISTRY' = r.st
           /\ Registered("add_command_parser", [f |-> f], r)
           /\ UNCHANGED <<COMMAND_FUNCTIONS_REGISTRY, PARSERS_REGISTRY,
                          SHELL_COMMANDS_REGISTRY, SHELL_COMMAND_ALIASES_REGISTRY>>

AddParser ==
    \E f \in ParserFunctions :
        LET r == add_parser(PARSERS_REGISTRY, f)
        IN /\ rt # PyNone
           /\ PARSERS_REGISTRY' = r.st
           /\ Registered("add_parser", [f |-> f], r)
           /\ UNCHANGED <<COMMAND_FUNCTIONS_REGISTRY, COMMAND_PARSERS_REGISTRY,
                          SHELL_COMMANDS_REGISTRY, SHELL_COMMAND_ALIASES_REGISTRY>>

AddShellCommand ==
    \E command \in {PyStr(<<"ping">>)} :
        LET r == add_shell_command(SHELL_COMMANDS_REGISTRY, command)
        IN /\ rt # PyNone
           /\ SHELL_COMMANDS_REGISTRY' = r.st
           /\ Registered("add_shell_command", [command |-> command], r)
           /\ UNCHANGED <<COMMAND_FUNCTIONS_REGISTRY, COMMAND_PARSERS_REGISTRY,
                          PARSERS_REGISTRY, SHELL_COMMAND_ALIASES_REGISTRY>>

AddShellCommandAlias ==
    \E alias \in {PyStr(<<"ping">>)}, command_line \in CommandLines :
        LET r == add_shell_command_alias(SHELL_COMMAND_ALIASES_REGISTRY,
                                         alias, command_line)
        IN /\ rt # PyNone
           /\ SHELL_COMMAND_ALIASES_REGISTRY' = r.st
           /\ Registered("add_shell_command_alias",
                         [alias |-> alias, command_line |-> command_line], r)
           /\ UNCHANGED <<COMMAND_FUNCTIONS_REGISTRY, COMMAND_PARSERS_REGISTRY,
                          PARSERS_REGISTRY, SHELL_COMMANDS_REGISTRY>>

\* rt.process_message(message), for any notification the server may send.
ProcessMessage ==
    \E message \in NotificationsOf(Texts) :
        /\ rt # PyNone
        /\ Commit(rt.pushover_open_client,
                  process_message(St(rt.pushover_open_client), message),
                  "process_message", [message |-> message])
        /\ UNCHANGED <<registries, rt, ws>>

\* A shell process that subprocess.Popen started exits, on its own time:
\* nothing in the program waits for it.
ChildExits ==
    \E child \in children :
        /\ children' = children \ {child}
        /\ op' = [name |-> "exit"]
        /\ calls' = <<>>
        /\ UNCHANGED <<clients, messages, credfile, registries, rt, ws,
                       acknowledged>>

\* A Dispatcher made over a session that has logged in and registered.
InitDispatch ==
    /\ clients = <<CHOOSE c \in Bootstrapped : TRUE>>
    /\ messages = EmptyDict
    /\ credfile = PyDict(_get_credentials_dict(clients[1]))
    /\ COMMAND_FUNCTIONS_REGISTRY = EmptyDict
    /\ COMMAND_PARSERS_REGISTRY = EmptyDict
    /\ PARSERS_REGISTRY = <<>>
    /\ SHELL_COMMANDS_REGISTRY = {}
    /\ SHELL_COMMAND_ALIASES_REGISTRY = EmptyDict
    /\ rt = [t |-> "PushoverOpenClientRealTime", pushover_open_client |-> 1,
             pushover_websocket_login_string |->
                 PUSHOVER_WEBSOCKET_LOGIN(clients[1].device_id, clients[1].secret)]
    /\ ws = [state |-> "disconnected", sent |-> <<>>]
    /\ op = [name |-> "init"]
    /\ calls = <<>>
    /\ children = {}
    /\ acknowledged = PyNone

NextDispatch ==
    \/ RegisterCommand
    \/ RegisterCommandParser
    \/ RegisterParser
    \/ RegisterShellCommand
    \/ RegisterShellCommandAlias
    \/ AddCommandFunction
    \/ AddCommandParser
    \/ AddParser
    \/ AddShellCommand
    \/ AddShellCommandAlias
    \/ ProcessMessage
    \/ ChildExits

SpecDispatch == InitDispatch /\ [][NextDispatch]_vars

(***************************************************************************)
(* The four requests of a session, each called with its default arguments. *)
(***************************************************************************)
\* What the server may answer a session whose queue holds one notification.
QueueResponses ==
    {r \in DownloadResponses :
        r.status = 1 => r.messages = <<[id |-> PyInt(1), message |-> PyStr(<<"ping">>)]>>}

LoginDefault(i) ==
    \E resp \in LoginResponses :
        /\ Commit(i, login(St(i), PyNone, PyNone, PyNone, TRUE, resp),
                  "login", [resp |-> resp])
        /\ UNCHANGED <<registries, rt, ws>>

RegisterDeviceDefault(i) ==
    \E resp \in RegisterResponses :
        /\ Commit(i, register_device(St(i), PyNone, PyNone, TRUE,
                                     <<"20240101_000000">>, resp),
                  "register_device", [resp |-> resp])
        /\ UNCHANGED <<registries, rt, ws>>

DownloadMessagesDefault(i) ==
    \E resp \in QueueResponses :
        /\ Commit(i, download_messages(St(i), PyNone, PyNone, resp),
                  "download_messages", [resp |-> resp])
        /\ UNCHANGED <<registries, rt, ws>>

DeleteAllMessagesDefault(i) ==
    \E resp \in UpdateResponses :
        /\ Commit(i, delete_all_messages(St(i), PyNone, PyNone, PyNone, resp),
                  "delete_all_messages", [resp |-> resp])
        /\ UNCHANGED <<registries, rt, ws>>

NextRequests ==
    \/ \E i \in DOMAIN clients : LoginDefault(i)
    \/ \E i \in DOMAIN clients : RegisterDeviceDefault(i)
    \/ \E i \in DOMAIN clients : DownloadMessagesDefault(i)
    \/ \E i \in DOMAIN clients : DeleteAllMessagesDefault(i)

\* A session that has logged in and registered, repeating its requests.
SpecRequests == InitStore /\ [][NextRequests]_vars

(***************************************************************************)
(* The credentials file, written and loaded by a session.                   *)
(***************************************************************************)
WriteCredentialsFile(i) ==
    /\ Commit(i, R(write_credentials_file(St(i)), PyNone),
              "write_credentials_file", <<>>)
    /\ UNCHANGED <<registries, rt, ws>>

LoadFromCredentialsFile(i) ==
    /\ Commit(i, load_from_credentials_file(St(i)),
              "load_from_credentials_file", <<>>)
    /\ UNCHANGED <<registries, rt, ws>>

LoadFromEmailAndPassword(i) ==
    \E email \in Emails, password \in Passwords \cup {PyStr(<<>>)} :
        /\ Commit(i, load_from_email_and_password(St(i), email, password),
                  "load_from_email_and_password",
                  [email |-> email, password |-> password])
        /\ UNCHANGED <<registries, rt, ws>>

\* session = PushoverOpenClient(email, password): the name is bound to the new
\* instance when the constructor returns, and keeps its value when it raises.
NewPushoverOpenClient(i) ==
    \E email \in {PyNone} \cup Emails, password \in {PyNone} \cup Passwords :
        LET made == PushoverOpenClient__init__(St(i), email, password)
        IN /\ Commit(i, IF IsRaise(made.ret) THEN R(St(i), made.ret) ELSE made,
                     "__init__", [email |-> email, password |-> password])
           /\ UNCHANGED <<registries, rt, ws>>

\* A session over a file that holds the account's email and password, made by
\* PushoverOpenClient(), which loads the file, or by
\* PushoverOpenClient(email, password), which does not.
InitCredentials ==
    /\ credfile \in {PyDict([k \in {"email", "password"} |->
                               IF k = "email" THEN e ELSE p]) :
                       e \in Emails, p \in Passwords}
    /\ clients \in
         {<<PushoverOpenClient__init__(
               [c |-> PushoverOpenClient, messages |-> EmptyDict,
                credfile |-> credfile, calls |-> <<>>], e, p).st.c>> :
            e \in {PyNone} \cup Emails, p \in Passwords}
    /\ messages = EmptyDict
    /\ COMMAND_FUNCTIONS_REGISTRY = EmptyDict
    /\ COMMAND_PARSERS_REGISTRY = EmptyDict
    /\ PARSERS_REGISTRY = <<>>
    /\ SHELL_COMMANDS_REGISTRY = {}
    /\ SHELL_COMMAND_ALIASES_REGISTRY = EmptyDict
    /\ rt = PyNone
    /\ ws = [state |-> "disconnected", sent |-> <<>>]
    /\ op = [name |-> "init"]
    /\ calls = <<>>
    /\ children = {}
    /\ acknowledged = PyNone

NextCredentials ==
    \/ \E i \in DOMAIN clients : Login(i)
    \/ \E i \in DOMAIN clients : RegisterDevice(i)
    \/ \E i \in DOMAIN clients : WriteCredentialsFile(i)
    \/ \E i \in DOMAIN clients : LoadFromCredentialsFile(i)
    \/ \E i \in DOMAIN clients : LoadFromEmailAndPassword(i)
    \/ \E i \in DOMAIN clients : NewPushoverOpenClient(i)

SpecCredentials == InitCredentials /\ [][NextCredentials]_vars

(***************************************************************************)
(* The Realtime Dispatcher on its connection.                              *)
(***************************************************************************)
NoReply == [login |-> Failed(PyNone), devices |-> Failed(PyNone),
            messages |-> Failed(PyNone), update |-> Failed(PyNone)]

\* The replies the server may give to the requests a frame's reaction makes.
RepliesTo(message) ==
    CASE message = "!" ->
           {[NoReply EXCEPT !.messages = d, !.update = u] :
              d \in DownloadResponses, u \in UpdateResponses}
      [] message = "E" ->
           [login : ReconnectLogins, devices : ReconnectDevices,
            messages : ReconnectResponses, update : {[status |-> 1]}]
      [] OTHER -> {NoReply}

\* run_forever(): the transport starts connecting.
RunForever ==
    /\ rt # PyNone
    /\ ws.state = "disconnected"
    /\ ws' = [state |-> "connecting", sent |-> <<>>]
    /\ op' = [name |-> "run_forever"]
    /\ calls' = <<>>
    /\ UNCHANGED <<clients, messages, credfile, registries, rt, children, acknowledged>>

\* The transport opened the connection: the login frame is sent.
OnOpen ==
    /\ ws.state = "connecting"
    /\ ws' = [state |-> "connected", sent |-> ws.sent \o _on_open(rt)]
    /\ op' = [name |-> "_on_open"]
    /\ calls' = <<>>
    /\ UNCHANGED <<clients, messages, credfile, registries, rt, children, acknowledged>>

\* The transport delivered a frame, and the server answered the requests of
\* the reaction with resp.
Delivered(message, resp) ==
    LET i == rt.pushover_open_client
        r == _on_message(St(i), message, <<"20240101_000000">>, resp)
    IN /\ ws.state = "connected"
       /\ Commit(i, r, "_on_message", [message |-> message, resp |-> resp])
       /\ UNCHANGED <<registries, rt, ws>>

\* The transport delivered a frame.
OnMessage(message) == \E resp \in RepliesTo(message) : Delivered(message, resp)

\* The transport reported an error: the connection is over.
OnError ==
    /\ ws.state \in {"connecting", "connected"}
    /\ ws' = [ws EXCEPT !.state = "disconnected"]
    /\ op' = [name |-> "_on_error"]
    /\ calls' = <<>>
    /\ UNCHANGED <<clients, messages, credfile, registries, rt, children, acknowledged>>

\* A slip: the closed connection is started again without the caller.
OnCloseReconnects ==
    /\ ws.state = "connected"
    /\ ws' = [state |-> "connecting", sent |-> <<>>]
    /\ op' = [name |-> "_on_close"]
    /\ calls' = <<>>
    /\ UNCHANGED <<clients, messages, credfile, registries, rt, children, acknowledged>>

\* The transport closed the connection.
OnClose ==
    /\ ws.state = "connected"
    /\ ws' = [ws EXCEPT !.state = "disconnected"]
    /\ op' = [name |-> "_on_close"]
    /\ calls' = <<>>
    /\ UNCHANGED <<clients, messages, credfile, registries, rt, children, acknowledged>>

\* The program as it starts: a Dispatcher made over a session that has logged
\* in and registered, with the handlers the program registered.
Init ==
    /\ clients = <<CHOOSE c \in Bootstrapped : TRUE>>
    /\ messages = EmptyDict
    /\ credfile = PyDict(_get_credentials_dict(clients[1]))
    /\ COMMAND_FUNCTIONS_REGISTRY \in
         {EmptyDict, register_command(EmptyDict, Fn(<<"ping">>, "ping_v1")).st}
    /\ COMMAND_PARSERS_REGISTRY = EmptyDict
    /\ PARSERS_REGISTRY = register_parser(<<>>, Fn(<<"log">>, "log_v1")).st
    /\ SHELL_COMMANDS_REGISTRY = {}
    /\ SHELL_COMMAND_ALIASES_REGISTRY = EmptyDict
    /\ rt = [t |-> "PushoverOpenClientRealTime", pushover_open_client |-> 1,
             pushover_websocket_login_string |->
                 PUSHOVER_WEBSOCKET_LOGIN(clients[1].device_id, clients[1].secret)]
    /\ ws = [state |-> "disconnected", sent |-> <<>>]
    /\ op = [name |-> "init"]
    /\ calls = <<>>
    /\ children = {}
    /\ acknowledged = PyNone

Next ==
    \/ RunForever
    \/ OnOpen
    \/ \E message \in Frames : OnMessage(message)
    \/ OnError
    \/ OnClose

Spec == Init /\ [][Next]_vars

(***************************************************************************)
(* The Realtime Dispatcher while the server holds notifications for the    *)
(* device, the one it has and the one a new session registers.             *)
(***************************************************************************)
RepliesWithQueue(message) ==
    CASE message = "E" ->
           [login : ReconnectLogins, devices : ReconnectDevices,
            messages : DownloadResponses, update : UpdateResponses]
      [] OTHER -> RepliesTo(message)

\* The transport delivered a frame that makes the Dispatcher download.
OnMessageQueued(message) ==
    \E resp \in RepliesWithQueue(message) : Delivered(message, resp)

NextReconnect ==
    \/ RunForever
    \/ OnOpen
    \/ \E message \in {"!", "E"} : OnMessageQueued(message)

SpecReconnect == Init /\ [][NextReconnect]_vars

(***************************************************************************)
(* Properties of the notification store (under SpecStore).                 *)
(***************************************************************************)
Range(f) == {f[x] : x \in DOMAIN f}

\* The requests the operation that ran last sent to endpoint `what`.
Requests(log, what) ==
    SelectSeq(log, LAMBDA e : e.ev = "http" /\ e.what = what)

\* The notifications the operation o downloaded (none when the download failed).
DownloadedBy(o) ==
    IF \/ o.name = "download_messages"
       \/ (o.name = "get_highest_message_id" /\ o.args.redownload)
    THEN (IF o.args.resp.status = 1 THEN o.args.resp.messages ELSE <<>>)
    ELSE <<>>

IsDownload(o) ==
    \/ o.name = "download_messages"
    \/ (o.name = "get_highest_message_id" /\ o.args.redownload)

\* C2: after a successful delete_all_messages with effective watermark lastId
\* (the argument, or the store's maximum when omitted) the store holds no
\* entry with id <= lastId and still holds, unchanged, every entry with
\* id > lastId it held before.
C2_DeletePrunesStore ==
    [][(op'.name = "delete_all_messages" /\ op'.ret = PyBool(TRUE)) =>
         LET given == op'.args.last_message_id
             acked == IF given # PyNone THEN {id \in DOMAIN messages : id <= given.n}
                      ELSE DOMAIN messages
         IN /\ DOMAIN messages' = DOMAIN messages \ acked
            /\ \A id \in DOMAIN messages \ acked : messages'[id] = messages[id]]_vars

\* C7: a successful download leaves, for every id it returned, exactly the
\* entry downloaded last for that id, and every other entry as it was; a
\* failed download leaves the store as it was.
C7_DownloadMergesById ==
    [][IsDownload(op') =>
         LET batch == DownloadedBy(op')
             at(id) == {j \in DOMAIN batch : batch[j]["id"].n = id}
         IN /\ DOMAIN messages' = DOMAIN messages \cup {batch[j]["id"].n : j \in DOMAIN batch}
            /\ \A id \in DOMAIN messages' :
                 IF at(id) # {}
                 THEN messages'[id] = batch[CHOOSE j \in at(id) : \A k \in at(id) : k <= j]
                 ELSE messages'[id] = messages[id]]_vars

\* C7's case: a download overwrote nothing it did not return, in a store that
\* already held another notification.
C7_Witness ==
    /\ op.name = "download_messages"
    /\ op.args.resp.status = 1
    /\ op.args.resp.messages # <<>>
    /\ \E id \in DOMAIN messages :
         \A j \in DOMAIN op.args.resp.messages : op.args.resp.messages[j]["id"].n # id

\* C8: get_highest_message_id returns the greatest id of the store, and the
\* falsy sentinel (no exception) when the store is empty.
C8_HighestIsMax ==
    op.name = "get_highest_message_id" =>
        IF DOMAIN messages = {}
        THEN op.ret = PyBool(FALSE)
        ELSE /\ op.ret.t = "int"
             /\ op.ret.n \in DOMAIN messages
             /\ \A id \in DOMAIN messages : id <= op.ret.n

C8_Witness ==
    /\ op.name = "get_highest_message_id"
    /\ Cardinality(DOMAIN messages) >= 2

\* C9: delete_all_messages called without last_message_id sends the greatest
\* id of the store as watermark; called with one, it sends exactly that one.
C9_WatermarkSent ==
    op.name = "delete_all_messages" =>
        LET sent == Requests(calls, "update_highest_message")
            given == op.args.last_message_id
        IN /\ Len(sent) = 1
           /\ IF given = PyNone
              THEN DOMAIN messages # {} =>
                     /\ sent[1].data.data.message.t = "int"
                     /\ sent[1].data.data.message.n \in DOMAIN messages
                     /\ \A id \in DOMAIN messages : id <= sent[1].data.data.message.n
              ELSE sent[1].data.data.message = given

\* C9's case: a watermark given that is not the store's greatest id.
C9_Witness ==
    /\ op.name = "delete_all_messages"
    /\ op.args.last_message_id # PyNone
    /\ \E id \in DOMAIN messages : id > op.args.last_message_id.n

(***************************************************************************)
(* Properties of login and of the login frame (under SpecSession).         *)
(***************************************************************************)
\* The login call that just ended sent a request and got the reply op.args.resp.
LoginAnswered(o, log) == o.name = "login" /\ Requests(log, "login") # <<>>

\* C5: a login without any two-factor code that the server answers with
\* HTTP 412 sets needs_twofa, returns None, records no login error and keeps
\* the secret; a hard failure clears needs_twofa and records the errors.
C5_TwofaRequiredIsNotFailure ==
    [][LoginAnswered(op', calls') =>
         LET before == clients[op'.self]
             after == clients'[op'.self]
             resp == op'.args.resp
         IN /\ (/\ resp.status_code = 412
                /\ ~Truthy(op'.args.twofa)
                /\ ~Truthy(before.twofa))
               => /\ after.needs_twofa
                  /\ op'.ret = PyNone
                  /\ after.login_errors = PyNone
                  /\ after.secret = before.secret
            /\ (resp.status_code # 412 /\ resp.status # 1)
               => /\ ~after.needs_twofa
                  /\ op'.ret = PyNone
                  /\ after.login_errors = resp.errors
                  /\ after.login_errors # PyNone
                  /\ after.secret = before.secret]_vars

\* C5's case: the server asked for the code of a session that had none, and
\* that had a secret to keep.
C5_Witness ==
    /\ LoginAnswered(op, calls)
    /\ op.args.resp.status_code = 412
    /\ ~Truthy(op.args.twofa)
    /\ ~Truthy(clients[op.self].twofa)
    /\ clients[op.self].needs_twofa
    /\ Truthy(clients[op.self].secret)

\* C6: once needs_twofa is set, a login that has the code (as argument or
\* stored) and gets status 1 sends the code, returns the secret, stores it
\* and clears needs_twofa.
C6_SecondLoginCompletes ==
    [][(/\ op'.name = "login"
        /\ clients[op'.self].needs_twofa
        /\ (Truthy(op'.args.twofa) \/ Truthy(clients[op'.self].twofa))
        /\ op'.args.resp.status_code = 200
        /\ op'.args.resp.status = 1) =>
         LET before == clients[op'.self]
             after == clients'[op'.self]
             sent == Requests(calls', "login")
             code == IF Truthy(op'.args.twofa) THEN op'.args.twofa ELSE before.twofa
         IN /\ Len(sent) = 1
            /\ "twofa" \in DOMAIN sent[1].data
            /\ sent[1].data["twofa"] = code
            /\ op'.ret = op'.args.resp.secret
            /\ after.secret = op'.args.resp.secret
            /\ ~after.needs_twofa]_vars

\* C6's case: the stored code completed a login that had asked for it, and
\* the secret changed.
C6_Witness ==
    /\ LoginAnswered(op, calls)
    /\ ~Truthy(op.args.twofa)
    /\ "twofa" \in DOMAIN Requests(calls, "login")[1].data
    /\ op.ret = op.args.resp.secret
    /\ ~clients[op.self].needs_twofa

\* C10: get_websocket_login_string returns login:<device_id>:<secret>\n for
\* the effective device id and secret (the argument when given, else the
\* instance's), and raises when either of them is unset.
C10_LoginFrame ==
    op.name = "get_websocket_login_string" =>
        LET c == clients[op.self]
            device_id == IF Truthy(op.args.device_id) THEN op.args.device_id
                         ELSE c.device_id
            secret == IF Truthy(op.args.secret) THEN op.args.secret ELSE c.secret
        IN IF ~Truthy(device_id) \/ ~Truthy(secret)
           THEN IsRaise(op.ret)
           ELSE op.ret = PyStr(<<"login", ":">> \o device_id.s \o <<":">>
                               \o secret.s \o <<"\n">>)

(***************************************************************************)
(* Properties of process_message (under SpecDispatch).                     *)
(***************************************************************************)
\* The handler runs of registry reg in the log.
Runs(log, reg) == SelectSeq(log, LAMBDA e : e.ev = "handler" /\ e.reg = reg)

\* The shell commands process `by` started in the log.
Shells(log, by) == SelectSeq(log, LAMBDA e : e.ev = "Popen" /\ e.by = by)

\* Every generic parser ran exactly once in the log, on the full record of message.
ParsersRanOnce(log, message) ==
    LET ran == Runs(log, "PARSERS_REGISTRY")
    IN \A i \in DOMAIN PARSERS_REGISTRY :
         /\ Cardinality({j \in DOMAIN ran : ran[j].name = PARSERS_REGISTRY[i][1]}) = 1
         /\ \E j \in DOMAIN ran :
              /\ ran[j].name = PARSERS_REGISTRY[i][1]
              /\ ran[j].f = PARSERS_REGISTRY[i][2]
              /\ ran[j].raw_data = get_notification_model(message)

\* C3: whatever its message, a notification passed to process_message is
\* handed exactly once to every generic parser, as the full record.
C3_ParsersAlwaysRun ==
    op.name = "process_message" => ParsersRanOnce(calls, op.args.message)

\* The command word of a notification, <<>> when it has none.
CommandWordOf(message) ==
    IF "message" \in DOMAIN message /\ message["message"].t = "str"
       /\ split(message["message"].s) # <<>>
    THEN split(message["message"].s)[1]
    ELSE <<>>

\* C4: for a notification with a command word, every registry that holds
\* the word runs its handler, whatever the other registries hold, and the
\* generic parsers run too.
C4_RegistriesIndependent ==
    (op.name = "process_message" /\ CommandWordOf(op.args.message) # <<>>) =>
        LET message == op.args.message
            word == CommandWordOf(message)
            raw_data == get_notification_model(message)
            functions == Runs(calls, "COMMAND_FUNCTIONS_REGISTRY")
            parsers == Runs(calls, "COMMAND_PARSERS_REGISTRY")
            commands == Shells(calls, "process_shell_command")
            aliases == Shells(calls, "process_shell_alias")
        IN /\ IF word \in DOMAIN COMMAND_FUNCTIONS_REGISTRY
              THEN /\ Len(functions) = 1
                   /\ functions[1].f = COMMAND_FUNCTIONS_REGISTRY[word]
                   /\ functions[1].args = split(message["message"].s)
                   /\ functions[1].raw_data = raw_data
              ELSE functions = <<>>
           /\ IF word \in DOMAIN COMMAND_PARSERS_REGISTRY
              THEN /\ Len(parsers) = 1
                   /\ parsers[1].f = COMMAND_PARSERS_REGISTRY[word]
                   /\ parsers[1].raw_data = raw_data
              ELSE parsers = <<>>
           /\ IF word \in SHELL_COMMANDS_REGISTRY
              THEN /\ Len(commands) = 1
                   /\ commands[1].args = message["message"]
              ELSE commands = <<>>
           /\ IF word \in DOMAIN SHELL_COMMAND_ALIASES_REGISTRY
              THEN /\ Len(aliases) = 1
                   /\ aliases[1].args = SHELL_COMMAND_ALIASES_REGISTRY[word]
              ELSE aliases = <<>>
           /\ ParsersRanOnce(calls, message)
           /\ ~IsRaise(op.ret)

\* C4's case: the command word is in all four registries and two generic
\* parsers are registered.
C4_Witness ==
    /\ op.name = "process_message"
    /\ CommandWordOf(op.args.message) \in DOMAIN COMMAND_FUNCTIONS_REGISTRY
    /\ CommandWordOf(op.args.message) \in DOMAIN COMMAND_PARSERS_REGISTRY
    /\ CommandWordOf(op.args.message) \in SHELL_COMMANDS_REGISTRY
    /\ CommandWordOf(op.args.message) \in DOMAIN SHELL_COMMAND_ALIASES_REGISTRY
    /\ Len(PARSERS_REGISTRY) = 2
    /\ Len(split(op.args.message["message"].s)) = 2


(***************************************************************************)
(* Properties of the Realtime Dispatcher (under Spec).                     *)
(***************************************************************************)
\* The calls of the log to the three steps of a synchronisation, in order.
SyncSteps(log) ==
    SelectSeq(log, LAMBDA e : e.ev = "call" /\ e.f \in
        {"download_messages", "delete_all_messages", "process_message"})

\* The positions in the log of the events where a handler or a shell ran.
HandlerPositions(log) == {j \in DOMAIN log : log[j].ev \in {"handler", "Popen"}}

\* The position in the log of the first call to f (0 when there is none).
FirstCall(log, f) ==
    IF \E j \in DOMAIN log : log[j].ev = "call" /\ log[j].f = f
    THEN CHOOSE j \in DOMAIN log :
           /\ log[j].ev = "call" /\ log[j].f = f
           /\ \A k \in 1 .. j - 1 : ~(log[k].ev = "call" /\ log[k].f = f)
    ELSE 0

\* The notifications the server returned to the download of the sync o.
SyncBatch(o) ==
    IF o.args.resp.messages.status = 1 THEN o.args.resp.messages.messages
    ELSE <<>>

\* C1: on the frame "!" the Dispatcher calls download_messages, then
\* delete_all_messages, then process_message once for each notification the
\* download returned, in the order returned; no handler runs before the call
\* to delete_all_messages, and nothing else is processed.
C1_SyncOrder ==
    (op.name = "_on_message" /\ op.args.message = "!") =>
        LET steps == SyncSteps(calls)
            batch == SyncBatch(op)
        IN /\ Len(steps) = 2 + Len(batch)
           /\ steps[1].f = "download_messages"
           /\ steps[2].f = "delete_all_messages"
           /\ \A j \in DOMAIN batch :
                /\ steps[2 + j].f = "process_message"
                /\ steps[2 + j].arg = batch[j]
           /\ \A j \in HandlerPositions(calls) :
                j > FirstCall(calls, "delete_all_messages")


\* The frame is a login frame: login:<device_id>:<secret>\n.
IsLoginFrame(frame) ==
    \E d \in DeviceIds, sec \in Secrets : frame = PUSHOVER_WEBSOCKET_LOGIN(d, sec)

\* C11: on each connection the Dispatcher sends the login frame once, when the
\* connection opens: nothing is sent before, the frame is the first and only
\* frame of the connection, and it has gone out before any inbound frame is
\* reacted to.
C11_LoginFrameOnce ==
    /\ ws.state = "connecting" => ws.sent = <<>>
    /\ ws.state = "connected" =>
         /\ ws.sent = <<rt.pushover_websocket_login_string>>
         /\ IsLoginFrame(ws.sent[1])
    /\ op.name = "_on_message" =>
         /\ Len(ws.sent) = 1
         /\ IsLoginFrame(ws.sent[1])

\* A frame was reacted to on a connection whose only outbound frame is the login.
C11_Witness ==
    /\ op.name = "_on_message"
    /\ op.args.message = "!"
    /\ ws.state = "connected"
    /\ ws.sent = <<PUSHOVER_WEBSOCKET_LOGIN(PyStr(<<"d1">>), PyStr(<<"s1">>))>>


\* The calls of the log to the four steps of a bootstrap, in order.
BootstrapSteps(log) ==
    SelectSeq(log, LAMBDA e : e.ev = "call" /\ e.f \in
        {"login", "register_device", "download_messages", "delete_all_messages"})

\* The endpoints the log's requests went to, in order.
Endpoints(log) ==
    LET reqs == SelectSeq(log, LAMBDA e : e.ev = "http")
    IN [j \in DOMAIN reqs |-> reqs[j].what]

\* The field of a credentials file, or the class's default when it is not there.
Stored(file, field) ==
    IF field \in DOMAIN file.d THEN file.d[field] ELSE PushoverOpenClient[field]

\* C12: on the frame "E" the Dispatcher makes a new session from the
\* credentials file and calls login, register_device, download_messages and
\* delete_all_messages on it, in that order; afterwards the session the
\* Dispatcher holds is that new one, carrying what those four calls left in it
\* and nothing of the session held before.
C12_PermanentErrorBootstraps ==
    [][(op'.name = "_on_message" /\ op'.args.message = "E") =>
        LET steps == BootstrapSteps(calls')
            resp == op'.args.resp
            new == clients'[rt'.pushover_open_client]
            accepted == resp.login.status_code # 412 /\ resp.login.status = 1
            refused == resp.login.status_code # 412 /\ resp.login.status # 1
        IN /\ ~IsRaise(op'.ret)
           /\ [j \in DOMAIN steps |-> steps[j].f] =
                <<"login", "register_device", "download_messages",
                  "delete_all_messages">>
           /\ Endpoints(calls') =
                <<"login", "devices", "messages", "update_highest_message">>
           /\ new.email = Stored(credfile, "email")
           /\ new.password = Stored(credfile, "password")
           /\ new.twofa = PyNone
           /\ new.needs_twofa = (resp.login.status_code = 412)
           /\ new.secret = IF accepted THEN resp.login.secret
                           ELSE Stored(credfile, "secret")
           /\ new.login_errors = IF refused THEN resp.login.errors ELSE PyNone
           /\ new.device_id = IF resp.devices.status = 1 THEN resp.devices.id
                              ELSE Stored(credfile, "device_id")
           /\ new.device_registration_errors =
                IF resp.devices.status = 1 THEN PyNone ELSE resp.devices.errors
           /\ new.message_downloading_errors =
                IF resp.messages.status = 1 THEN PyNone ELSE resp.messages.errors
           /\ new.update_highest_message_errors =
                IF resp.update.status = 1 THEN PyNone ELSE resp.update.errors
    ]_vars

\* The frame "E" was reacted to, and the session held has the new secret and
\* the new device id.
C12_Witness ==
    /\ op.name = "_on_message"
    /\ op.args.message = "E"
    /\ op.args.resp.login.status = 1
    /\ clients[rt.pushover_open_client].secret = PyStr(<<"s2">>)
    /\ clients[rt.pushover_open_client].device_id = PyStr(<<"d2">>)


\* The events of the log where a request went out, a handler ran or a shell
\* was started.
Effects(log) == SelectSeq(log, LAMBDA e : e.ev \in {"http", "handler", "Popen"})

\* C13: a frame that is none of "#", "!", "R", "E", "A" raises nothing, calls
\* no reaction, sends no request, runs no handler, changes no state, and
\* leaves the connection open for the frames that follow.
C13_UnknownFrameIgnored ==
    [][(op'.name = "_on_message" /\ op'.args.message \notin {"#", "!", "R", "E", "A"}) =>
        /\ op'.ret = PyNone
        /\ calls' = <<>>
        /\ UNCHANGED <<clients, messages, credfile, registries, rt, ws,
                       children, acknowledged>>
        /\ ws'.state = "connected"
    ]_vars

\* A frame outside the protocol was delivered on an open connection.
C13_Witness ==
    /\ op.name = "_on_message"
    /\ op.args.message = "?"
    /\ ws.state = "connected"


\* C14: the frames "#", "R" and "A" leave the session the Dispatcher holds, the
\* notification store, the credentials file and the registries as they were,
\* send no request and run no handler.
C14_NoOpFrames ==
    [][(op'.name = "_on_message" /\ op'.args.message \in {"#", "R", "A"}) =>
        /\ op'.ret = PyNone
        /\ Effects(calls') = <<>>
        /\ UNCHANGED <<clients, messages, credfile, registries, rt, children, acknowledged>>
    ]_vars

\* The frame "A" was reacted to by a Dispatcher whose store holds a notification.
C14_Witness ==
    /\ op.name = "_on_message"
    /\ op.args.message = "A"
    /\ calls = <<Call("message_error")>>
    /\ DOMAIN messages # {}


EndpointOf(name) ==
    CASE name = "login" -> "login"
      [] name = "register_device" -> "devices"
      [] name = "download_messages" -> "messages"
      [] name = "delete_all_messages" -> "update_highest_message"

ErrorsFieldOf(name) ==
    CASE name = "login" -> "login_errors"
      [] name = "register_device" -> "device_registration_errors"
      [] name = "download_messages" -> "message_downloading_errors"
      [] name = "delete_all_messages" -> "update_highest_message_errors"

\* What the method returns when it failed.
FailureSentinelOf(name) == IF name = "login" THEN PyNone ELSE PyBool(FALSE)

\* The operation o is one of the four, its request went out, and the server's
\* reply does not have status 1.
Refused(o, log) ==
    /\ o.name \in {"login", "register_device", "download_messages",
                   "delete_all_messages"}
    /\ Requests(log, EndpointOf(o.name)) # <<>>
    /\ o.args.resp.status # 1

\* The step reported the refusal: the failure sentinel is returned, the reply's
\* errors are in the operation's errors field, and the secret, the device id
\* and the store are as before.
FailureReported ==
    /\ op'.ret = FailureSentinelOf(op'.name)
    /\ clients'[op'.self][ErrorsFieldOf(op'.name)] = op'.args.resp.errors
    /\ clients'[op'.self].secret = clients[op'.self].secret
    /\ clients'[op'.self].device_id = clients[op'.self].device_id
    /\ messages' = messages

\* C16 as stated: every reply whose status is not 1, to any of login,
\* register_device, download_messages and delete_all_messages, is reported as
\* a failure with its errors recorded.
C16_EveryRefusalReported ==
    [][Refused(op', calls') => FailureReported]_vars

\* C16, amended: the same, except for the reply to login that asks for the
\* two-factor code (HTTP 412), which records no error.
C16_RefusalReportedUnless412 ==
    [][(/\ Refused(op', calls')
        /\ ~(op'.name = "login" /\ op'.args.resp.status_code = 412))
       => FailureReported]_vars

\* A registration was refused to a session that has a secret, a device id and
\* a notification in store.
C16_Witness ==
    /\ op.name = "register_device"
    /\ op.args.resp.status # 1
    /\ op.ret = PyBool(FALSE)
    /\ clients[op.self].device_registration_errors = op.args.resp.errors
    /\ clients[op.self].secret # PushoverOpenClient.secret
    /\ clients[op.self].device_id # PushoverOpenClient.device_id
    /\ DOMAIN messages # {}


(***************************************************************************)
(* Properties of the shell executor (under SpecDispatch).                  *)
(***************************************************************************)
\* Every start of a shell in the log.
AllShells(log) == SelectSeq(log, LAMBDA e : e.ev = "Popen")

\* C17: a notification reaches the shell only when the first word of its
\* message is, when it is processed, in SHELL_COMMANDS_REGISTRY (the message
\* is run) or a key of SHELL_COMMAND_ALIASES_REGISTRY (the alias's line is
\* run); with a word in neither, or with no word, no shell is started.
C17_ShellOnlyForRegisteredWords ==
    op.name = "process_message" =>
        LET word == CommandWordOf(op.args.message)
        IN /\ Shells(calls, "process_shell_command") # <<>> =>
                (word # <<>> /\ word \in SHELL_COMMANDS_REGISTRY)
           /\ Shells(calls, "process_shell_alias") # <<>> =>
                (word # <<>> /\ word \in DOMAIN SHELL_COMMAND_ALIASES_REGISTRY)
           /\ Len(AllShells(calls)) =
                Len(Shells(calls, "process_shell_command"))
                + Len(Shells(calls, "process_shell_alias"))

\* A message whose first word is not registered, and whose second word is,
\* was processed while shell commands and aliases were registered.
C17_Witness ==
    /\ op.name = "process_message"
    /\ CommandWordOf(op.args.message) = <<"rm">>
    /\ <<"ping">> \in SHELL_COMMANDS_REGISTRY
    /\ <<"ping">> \in DOMAIN SHELL_COMMAND_ALIASES_REGISTRY
    /\ AllShells(calls) = <<>>

\* C18: when the first word of the message is a registered alias, the line
\* handed to the shell for it is the line registered, and any other
\* notification with the same first word hands the shell the same line.
C18_AliasLineFixed ==
    (/\ op.name = "process_message"
     /\ CommandWordOf(op.args.message) # <<>>
     /\ CommandWordOf(op.args.message) \in DOMAIN SHELL_COMMAND_ALIASES_REGISTRY) =>
        LET word == CommandWordOf(op.args.message)
            ran == Shells(calls, "process_shell_alias")
        IN /\ ran = <<Popen("process_shell_alias",
                            SHELL_COMMAND_ALIASES_REGISTRY[word])>>
           /\ \A other \in NotificationsOf(Texts) :
                CommandWordOf(other) = word =>
                    Shells(process_message(St(rt.pushover_open_client),
                                           other).st.calls,
                           "process_shell_alias") = ran

\* An alias was received with more text after it.
C18_Witness ==
    /\ op.name = "process_message"
    /\ CommandWordOf(op.args.message) \in DOMAIN SHELL_COMMAND_ALIASES_REGISTRY
    /\ Len(split(op.args.message["message"].s)) = 2
    /\ Len(Shells(calls, "process_shell_alias")) = 1


(***************************************************************************)
(* Properties of the registrations (under SpecDispatch).                   *)
(***************************************************************************)
\* The registry the registration o wrote, after the same registration is made
\* once more on the registries as they are.
RegistryAfterRepeating(o) ==
    CASE o.name = "register_command" ->
           register_command(COMMAND_FUNCTIONS_REGISTRY, o.args.f).st
      [] o.name = "add_command_function" ->
           add_command_function(COMMAND_FUNCTIONS_REGISTRY, o.args.f).st
      [] o.name = "register_command_parser" ->
           register_command_parser(COMMAND_PARSERS_REGISTRY, o.args.f).st
      [] o.name = "add_command_parser" ->
           add_command_parser(COMMAND_PARSERS_REGISTRY, o.args.f).st
      [] o.name = "register_parser" ->
           register_parser(PARSERS_REGISTRY, o.args.f).st
      [] o.name = "add_parser" ->
           add_parser(PARSERS_REGISTRY, o.args.f).st
      [] o.name = "register_shell_command" ->
           register_shell_command(SHELL_COMMANDS_REGISTRY, o.args.command).st
      [] o.name = "add_shell_command" ->
           add_shell_command(SHELL_COMMANDS_REGISTRY, o.args.command).st
      [] o.name = "register_shell_command_alias" ->
           register_shell_command_alias(SHELL_COMMAND_ALIASES_REGISTRY,
                                        o.args.alias, o.args.command_line).st
      [] o.name = "add_shell_command_alias" ->
           add_shell_command_alias(SHELL_COMMAND_ALIASES_REGISTRY,
                                   o.args.alias, o.args.command_line).st

\* The registry the registration o wrote, as it is.
RegistryOf(o) ==
    CASE o.name \in {"register_command", "add_command_function"} ->
           COMMAND_FUNCTIONS_REGISTRY
      [] o.name \in {"register_command_parser", "add_command_parser"} ->
           COMMAND_PARSERS_REGISTRY
      [] o.name \in {"register_parser", "add_parser"} -> PARSERS_REGISTRY
      [] o.name \in {"register_shell_command", "add_shell_command"} ->
           SHELL_COMMANDS_REGISTRY
      [] o.name \in {"register_shell_command_alias", "add_shell_command_alias"} ->
           SHELL_COMMAND_ALIASES_REGISTRY

IsRegistration(o) ==
    o.name \in {"register_command", "add_command_function",
                "register_command_parser", "add_command_parser",
                "register_parser", "add_parser",
                "register_shell_command", "add_shell_command",
                "register_shell_command_alias", "add_shell_command_alias"}

\* C19: a registration raises nothing, whatever name, command or alias it is
\* given, and making it a second time leaves the registry as the first left it.
C19_RegistrationNeverFails ==
    IsRegistration(op) =>
        /\ ~IsRaise(op.ret)
        /\ RegistryAfterRepeating(op) = RegistryOf(op)


(***************************************************************************)
(* Properties of the credentials file (under SpecCredentials).             *)
(***************************************************************************)
CredentialFields == {"email", "password", "secret", "device_id"}

\* The credential fields of session c that are not empty.
NonEmptyFields(c) == {f \in CredentialFields : Truthy(c[f])}

\* C20: a write persists exactly the credential fields of the session that are
\* not empty, with their values, so the file never holds a null or empty
\* value; a load of the file succeeds, gives the session every field the file
\* holds and leaves the session's other fields as they were.
C20_CredentialsRoundTrip ==
    [][/\ \A k \in DOMAIN credfile'.d : Truthy(credfile'.d[k])
       /\ op'.name = "write_credentials_file" =>
            credfile' = PyDict([f \in NonEmptyFields(clients[op'.self]) |->
                                  clients[op'.self][f]])
       /\ op'.name = "load_from_credentials_file" =>
            /\ ~IsRaise(op'.ret)
            /\ \A f \in CredentialFields :
                 clients'[op'.self][f] =
                    IF f \in DOMAIN credfile.d THEN credfile.d[f]
                    ELSE clients[op'.self][f]
    ]_vars


(***************************************************************************)
(* Properties of the handlers' work (under SpecDispatch).                  *)
(***************************************************************************)
\* C21: the work a notification's handlers started is over before the next
\* notification is processed: when process_message begins, no shell process
\* started for an earlier notification is still running.
C21_HandlersSequential ==
    [][op'.name = "process_message" => children = {}]_vars


(***************************************************************************)
(* Properties of the stored two-factor code (under SpecSession).           *)
(***************************************************************************)
\* C22: a login called without a code, by a session that has a code stored by
\* set_twofa, sends the stored code in its request, whether or not an earlier
\* login has set needs_twofa.
C22_StoredCodeSent ==
    [][(/\ LoginAnswered(op', calls')
        /\ ~Truthy(op'.args.twofa)
        /\ Truthy(clients[op'.self].twofa)) =>
         LET sent == Requests(calls', "login")
         IN /\ Len(sent) = 1
            /\ "twofa" \in DOMAIN sent[1].data
            /\ sent[1].data["twofa"] = clients[op'.self].twofa]_vars


(***************************************************************************)
(* Properties of the constructor (under SpecCredentials).                  *)
(***************************************************************************)
\* C23: a session the constructor returned holds the credentials to log in
\* with: the email and password passed to it when both were passed, and those
\* of the credentials file when either was not.
C23_ConstructorCredentials ==
    (op.name = "__init__" /\ ~IsRaise(op.ret)) =>
        LET c == clients[op.self]
        IN IF Truthy(op.args.email) /\ Truthy(op.args.password)
           THEN c.email = op.args.email /\ c.password = op.args.password
           ELSE c.email = credfile.d["email"] /\ c.password = credfile.d["password"]


(***************************************************************************)
(* Properties of the synchronisation (under Spec).                         *)
(***************************************************************************)
\* C24: when the download of the sync started by the frame "!" is refused
\* (status other than 1), the reaction ends without raising and runs no
\* handler, and the connection stays open for the frames that follow.
C24_FailedDownloadSyncQuiet ==
    (/\ op.name = "_on_message"
     /\ op.args.message = "!"
     /\ op.args.resp.messages.status # 1) =>
        /\ ~IsRaise(op.ret)
        /\ HandlerPositions(calls) = {}
        /\ ws.state = "connected"


(***************************************************************************)
(* Properties of what is acknowledged (under SpecReconnect).               *)
(***************************************************************************)
\* The notifications the log handed to process_message.
Processed(log) ==
    {log[j].arg : j \in {k \in DOMAIN log :
                            log[k].ev = "call" /\ log[k].f = "process_message"}}

\* C25: every notification the Dispatcher downloaded and acknowledged while
\* reacting to the frame "!" or "E" was handed to process_message during that
\* reaction.
C25_AcknowledgedIsProcessed ==
    (/\ op.name = "_on_message"
     /\ op.args.message \in {"!", "E"}
     /\ Requests(calls, "update_highest_message") # <<>>
     /\ op.args.resp.update.status = 1) =>
        \A j \in DOMAIN SyncBatch(op) : SyncBatch(op)[j] \in Processed(calls)


(***************************************************************************)
(* Properties of repeated synchronisations (under Spec).                   *)
(***************************************************************************)
\* The operation o is the reaction to a frame "!".
IsSync(o) == o.name = "_on_message" /\ o.args.message = "!"

\* The ids of a set of notifications.
IdsOf(notifications) == {n["id"].n : n \in notifications}

\* C26: no notification id is handed to process_message by two reactions to
\* "!".  The server sends again only what was not acknowledged: when the
\* delete of a sync was accepted, the next download returns none of its ids;
\* when it was refused, the next download may return them again.
C26_ProcessedAtMostOnce ==
    [][(/\ IsSync(op)
        /\ IsSync(op')
        /\ (op.args.resp.update.status = 1 =>
              IdsOf(Range(SyncBatch(op))) \cap IdsOf(Range(SyncBatch(op'))) = {}))
       => IdsOf(Processed(calls)) \cap IdsOf(Processed(calls')) = {}]_vars


(***************************************************************************)
(* Properties of the store of a new session (under SpecReconnect).         *)
(***************************************************************************)
\* C27: the store belongs to one session: after the frame "E" the store of the
\* session the Dispatcher holds has exactly the notifications that session
\* downloaded, and nothing another session downloaded before.
C27_StorePerSession ==
    (op.name = "_on_message" /\ op.args.message = "E" /\ ~IsRaise(op.ret)) =>
        /\ DOMAIN messages = IdsOf(Range(SyncBatch(op)))
        /\ \A j \in DOMAIN SyncBatch(op) :
             messages[SyncBatch(op)[j]["id"].n] = SyncBatch(op)[j]


(***************************************************************************)
(* Properties of the login frame over reconnections (under Spec).          *)
(***************************************************************************)
\* C28: whenever the connection opens, the login frame sent is the one for
\* the device id and secret of the session the Dispatcher holds at that
\* moment, also after the frame "E" has replaced that session.
C28_LoginFrameOfActiveSession ==
    op.name = "_on_open" =>
        LET c == clients[rt.pushover_open_client]
        IN ws.sent = <<PUSHOVER_WEBSOCKET_LOGIN(c.device_id, c.secret)>>


(***************************************************************************)
(* Properties of the acknowledgement watermark.                            *)
(***************************************************************************)
\* The watermarks of the acknowledgement requests in the log, in order.
Watermarks(log) ==
    LET sent == Requests(log, "update_highest_message")
    IN [j \in DOMAIN sent |-> sent[j].data.data.message]

\* C29 (under Spec): every acknowledgement request carries as watermark the
\* id of a notification the store holds; with an empty store and no
\* last_message_id, as in a sync whose download returned nothing, no request
\* with another value as watermark goes out.
C29_WatermarkIsStoredId ==
    \A j \in DOMAIN Watermarks(calls) :
        /\ Watermarks(calls)[j].t = "int"
        /\ Watermarks(calls)[j].n \in DOMAIN messages

\* The number a watermark stands for: Python's False is 0.
Num(watermark) ==
    CASE watermark.t = "int" -> watermark.n
      [] watermark.t = "bool" -> (IF watermark.b THEN 1 ELSE 0)

\* C30 (under Spec): while every acknowledgement is made with last_message_id
\* omitted, as the syncs and the bootstrap of a new session make it, the
\* watermark of a request is never below the watermark of the request before.
C30_WatermarkNeverDecreases ==
    [][\A j \in DOMAIN Watermarks(calls') :
         LET before == IF j = 1 THEN acknowledged ELSE Watermarks(calls')[j - 1]
         IN before # PyNone => Num(Watermarks(calls')[j]) >= Num(before)]_vars

\* A sync whose download returned notification 1 alone acknowledged 2, the
\* highest id of a store that held it from an earlier sync.
C30_Witness ==
    /\ IsSync(op)
    /\ IdsOf(Range(SyncBatch(op))) = {1}
    /\ Watermarks(calls) = <<PyInt(2)>>
    /\ acknowledged = PyInt(2)

====
